---- MODULE Spec2Model ----
(***************************************************************************)
(* URB Fiscalizacao - Denuncias (src/app.py): the Postgres tables users    *)
(* and denuncias, the repository and credential functions over them, and   *)
(* the Streamlit sessions that call them.  Every text value is a sequence  *)
(* of one-character strings, so that strip() and the "%04d/%d" formatting  *)
(* are computed and not assumed.                                           *)
(***************************************************************************)
EXTENDS Integers, Sequences, FiniteSets, TLC

VARIABLES
  users,             \* table users: set of rows, username is the primary key
  denuncias,         \* table denuncias: set of rows
  denuncias_id_seq,  \* last value handed out by the SERIAL sequence of denuncias.id
  clock,             \* datetime.now(), at the granularity of a year
  user,              \* st.session_state['user'] of each session
  form,              \* the 'registro' form as last rendered to each session
  edit_mode_id,      \* st.session_state['edit_mode_id'] of each session (0: key absent)
  download_pdf_data, \* st.session_state['download_pdf_data'] (None: key absent)
  download_pdf_id,   \* st.session_state['download_pdf_id'] (<<>>: key absent)
  last_edited_pdf,   \* st.session_state['last_edited_pdf'] (None: key absent)
  unclosed,          \* connections the last handler opened and did not close
  lastOp             \* the last handler that ran: its name, session, arguments, result

vars == <<users, denuncias, denuncias_id_seq, clock, user, form, edit_mode_id,
          download_pdf_data, download_pdf_id, last_edited_pdf, unclosed, lastOp>>

\* the three keys of a session that hold a document to download
pdf_keys == <<download_pdf_data, download_pdf_id, last_edited_pdf>>

-----------------------------------------------------------------------------
(* Bounds of the model *)

\* the largest id that an insert gives to a row
MaxSeq == 2
\* the years the clock passes through, the first being the year of the first run
Years == {2025, 2026}
\* the largest number of ids selected for one batch action
MaxSel == 2

\* the browser sessions
Sessions == {"s1", "s2"}

-----------------------------------------------------------------------------
(* Text *)

None == [none |-> TRUE]

admin == <<"a", "d", "m", "i", "n">>
fisc2023 == <<"f", "i", "s", "c", "2", "0", "2", "3">>
Administrador == <<"A", "d", "m", "i", "n", "i", "s", "t", "r", "a", "d", "o", "r">>

\* what may be typed into the text inputs of the login and add_user forms
TypedUsernames == {admin, <<" ">> \o admin, <<"a", "n", "a">>, <<>>}
TypedPasswords == {fisc2023, <<"x">>, <<"x", " ">>, <<>>}
TypedFullNames == {<<"A", "n", "a">>, <<>>}

RECURSIVE lstrip(_)
lstrip(s) == IF s # <<>> /\ Head(s) = " " THEN lstrip(Tail(s)) ELSE s

RECURSIVE rstrip(_)
rstrip(s) == IF s # <<>> /\ s[Len(s)] = " " THEN rstrip(SubSeq(s, 1, Len(s) - 1)) ELSE s

strip(s) == rstrip(lstrip(s))

DigitChar == <<"0", "1", "2", "3", "4", "5", "6", "7", "8", "9">>

\* str(n) for n >= 0
RECURSIVE Decimal(_)
Decimal(n) == IF n < 10 THEN <<DigitChar[n + 1]>>
              ELSE Decimal(n \div 10) \o <<DigitChar[(n % 10) + 1]>>

RECURSIVE ZeroPad(_, _)
ZeroPad(s, width) == IF Len(s) >= width THEN s ELSE ZeroPad(<<"0">> \o s, width)

PadWidth == 4

\* f"{next_id:04d}/{year}"
FormatExternalId(next_id, year) == ZeroPad(Decimal(next_id), PadWidth) \o <<"/">> \o Decimal(year)

\* datetime.now().strftime('%Y-%m-%d %H:%M:%S'), of which the clock carries the year
strftime(t) == Decimal(t)

DigitValue(c) == CHOOSE d \in 0..9 : DigitChar[d + 1] = c

\* int(s) of a string of digits
RECURSIVE ParseInt(_)
ParseInt(s) == IF s = <<>> THEN 0
               ELSE ParseInt(SubSeq(s, 1, Len(s) - 1)) * 10 + DigitValue(s[Len(s)])

\* hashlib.sha256(password.encode('utf-8')).hexdigest(): the digest is kept as the
\* text it was taken of, so two digests are equal exactly when the texts are
hash_password(password) == [sha256 |-> password]

-----------------------------------------------------------------------------
(* Table users *)

\* init_db: the default administrator is inserted unless a row 'admin' exists
init_db(U) ==
  IF \E r \in U : r.username = admin
    THEN U
    ELSE U \cup {[username |-> admin, password |-> [sha256 |-> fisc2023],
                  full_name |-> Administrador, is_admin |-> TRUE]}

\* add_user as it would be with INSERT ... ON CONFLICT (username) DO UPDATE
add_user_upsert(U, username, password, full_name) ==
  LET pass_hash == hash_password(password)
      row == [username |-> username, password |-> pass_hash,
              full_name |-> full_name, is_admin |-> FALSE]
  IN IF \E r \in U : r.username = username
       THEN [ret |-> FALSE, users |-> {r \in U : r.username # username} \cup {row}]
       ELSE [ret |-> TRUE, users |-> U \cup {row}]

\* add_user as it would be if it stored is_admin = True
add_user_as_admin(U, username, password, full_name) ==
  LET pass_hash == hash_password(password)
  IN IF \E r \in U : r.username = username
       THEN [ret |-> FALSE, users |-> U]
       ELSE [ret |-> TRUE,
             users |-> U \cup {[username |-> username, password |-> pass_hash,
                                full_name |-> full_name, is_admin |-> TRUE]}]

\* add_user: INSERT INTO users; the primary key raises IntegrityError on a
\* username that exists, which is rolled back and answered with False
add_user(U, username, password, full_name) ==
  LET pass_hash == hash_password(password)
  IN IF \E r \in U : r.username = username
       THEN [ret |-> FALSE, users |-> U]
       ELSE [ret |-> TRUE,
             users |-> U \cup {[username |-> username, password |-> pass_hash,
                                full_name |-> full_name, is_admin |-> FALSE]}]

\* verify_user as it would be with WHERE username = %s alone
verify_user_any_password(U, username, password) ==
  LET found == {r \in U : r.username = username}
  IN IF found # {}
       THEN LET user_data == CHOOSE r \in found : TRUE
            IN [username |-> user_data.username, full_name |-> user_data.full_name,
                is_admin |-> user_data.is_admin]
       ELSE None

\* verify_user: SELECT username, full_name, is_admin ... WHERE username AND password
verify_user(U, username, password) ==
  LET pass_hash == hash_password(password)
      found == {r \in U : r.username = username /\ r.password = pass_hash}
  IN IF found # {}
       THEN LET user_data == CHOOSE r \in found : TRUE
            IN [username |-> user_data.username, full_name |-> user_data.full_name,
                is_admin |-> user_data.is_admin]
       ELSE None

-----------------------------------------------------------------------------
(* Table denuncias *)

Pendente == "Pendente"
Concluida == "Concluida"

\* the values of the ten descriptive widgets of a form, as one record
FormData ==
  { [origem |-> "Telefone", tipo |-> "Urbana", rua |-> "Rua A", numero |-> "10",
     bairro |-> "CENTENARIO", zona |-> "NORTE", latitude |-> "", longitude |-> "",
     descricao |-> "Lixo acumulado", quem_recebeu |-> "RAIANY NAYARA DE LIMA - 000.362"],
    [origem |-> "Ouvidoria", tipo |-> "Ambiental", rua |-> "Rua B", numero |-> "",
     bairro |-> "SALGADO", zona |-> "SUL", latitude |-> "-8.28", longitude |-> "-35.97",
     descricao |-> "", quem_recebeu |-> "SUELLEN BEZERRA DO NASCIMENTO - 000.417"] }

\* the form of the scenario: by telephone, 'Urbana', 'Lixo acumulado'
ScenarioForm == CHOOSE d \in FormData : d.origem = "Telefone"

Ids(rows) == {r.id : r \in rows}

Max(S) == CHOOSE m \in S : \A x \in S : x <= m

\* generate_external_id as it would be with SELECT COUNT(*)
generate_external_id_count(rows, now) ==
  FormatExternalId(Cardinality(rows) + 1, now)

\* generate_external_id: SELECT COALESCE(MAX(id), 0), plus one, with the year of now
generate_external_id(rows, now) ==
  LET max_id == Max(Ids(rows) \cup {0})
      next_id == max_id + 1
  IN FormatExternalId(next_id, now)

\* insert_denuncia as it would be if external_id were not UNIQUE
insert_denuncia_not_unique(rows, seq, record) ==
  LET id == seq + 1
      row == [id |-> id, external_id |-> record.external_id, created_at |-> record.created_at,
              origem |-> record.origem, tipo |-> record.tipo, rua |-> record.rua,
              numero |-> record.numero, bairro |-> record.bairro, zona |-> record.zona,
              latitude |-> record.latitude, longitude |-> record.longitude,
              descricao |-> record.descricao, quem_recebeu |-> record.quem_recebeu,
              status |-> IF "status" \in DOMAIN record THEN record.status ELSE Pendente]
  IN IF \E r \in rows : r.id = id
       THEN [raised |-> TRUE, rows |-> rows, seq |-> id]
       ELSE [raised |-> FALSE, rows |-> rows \cup {row}, seq |-> id]

\* insert_denuncia: id is nextval() of the sequence, which a failed INSERT does not
\* give back; external_id is UNIQUE and id the primary key
insert_denuncia(rows, seq, record) ==
  LET id == seq + 1
      row == [id |-> id, external_id |-> record.external_id, created_at |-> record.created_at,
              origem |-> record.origem, tipo |-> record.tipo, rua |-> record.rua,
              numero |-> record.numero, bairro |-> record.bairro, zona |-> record.zona,
              latitude |-> record.latitude, longitude |-> record.longitude,
              descricao |-> record.descricao, quem_recebeu |-> record.quem_recebeu,
              status |-> IF "status" \in DOMAIN record THEN record.status ELSE Pendente]
  IN IF \E r \in rows : r.id = id \/ r.external_id = record.external_id
       THEN [raised |-> TRUE, rows |-> rows, seq |-> id]
       ELSE [raised |-> FALSE, rows |-> rows \cup {row}, seq |-> id]

\* fetch_denuncia_by_id: SELECT * FROM denuncias WHERE id = id_
fetch_denuncia_by_id(rows, id_) ==
  IF \E r \in rows : r.id = id_ THEN CHOOSE r \in rows : r.id = id_ ELSE None

\* update_denuncia_status as it would be without its WHERE clause
update_denuncia_status_all(rows, id_, status) ==
  {[r EXCEPT !.status = status] : r \in rows}

\* update_denuncia_status: UPDATE denuncias SET status WHERE id = id_
update_denuncia_status(rows, id_, status) ==
  {IF r.id = id_ THEN [r EXCEPT !.status = status] ELSE r : r \in rows}

\* delete_denuncia: DELETE FROM denuncias WHERE id = id_
delete_denuncia(rows, id_) == {r \in rows : r.id # id_}

\* update_denuncia_full as it would be if it also renumbered the row
update_denuncia_full_renumber(rows, id_, row) ==
  {IF r.id = id_
     THEN [r EXCEPT !.external_id = generate_external_id(rows, clock),
                    !.origem = row.origem, !.tipo = row.tipo, !.rua = row.rua,
                    !.numero = row.numero, !.bairro = row.bairro, !.zona = row.zona,
                    !.latitude = row.latitude, !.longitude = row.longitude,
                    !.descricao = row.descricao, !.quem_recebeu = row.quem_recebeu,
                    !.status = row.status]
     ELSE r : r \in rows}

\* update_denuncia_full: UPDATE of the eleven editable columns WHERE id = id_
update_denuncia_full(rows, id_, row) ==
  {IF r.id = id_
     THEN [r EXCEPT !.origem = row.origem, !.tipo = row.tipo, !.rua = row.rua,
                    !.numero = row.numero, !.bairro = row.bairro, !.zona = row.zona,
                    !.latitude = row.latitude, !.longitude = row.longitude,
                    !.descricao = row.descricao, !.quem_recebeu = row.quem_recebeu,
                    !.status = row.status]
     ELSE r : r \in rows}

\* handle_form_submit as it would be if the record carried another status
handle_form_submit_concluida(rows, seq, external_id, created_at, data) ==
  LET record == [external_id |-> external_id, created_at |-> created_at,
                 origem |-> data.origem, tipo |-> data.tipo, rua |-> data.rua,
                 numero |-> data.numero, bairro |-> data.bairro, zona |-> data.zona,
                 latitude |-> data.latitude, longitude |-> data.longitude,
                 descricao |-> data.descricao, quem_recebeu |-> data.quem_recebeu,
                 status |-> Concluida]
  IN insert_denuncia(rows, seq, record)

\* handle_form_submit: the record is built with status 'Pendente' and inserted;
\* an exception of the insert is caught and shown
handle_form_submit(rows, seq, external_id, created_at, data) ==
  LET record == [external_id |-> external_id, created_at |-> created_at,
                 origem |-> data.origem, tipo |-> data.tipo, rua |-> data.rua,
                 numero |-> data.numero, bairro |-> data.bairro, zona |-> data.zona,
                 latitude |-> data.latitude, longitude |-> data.longitude,
                 descricao |-> data.descricao, quem_recebeu |-> data.quem_recebeu,
                 status |-> Pendente]
  IN insert_denuncia(rows, seq, record)

\* what pdf.output(dest="S") may give: a bytearray, a str, or an exception raised
\* while the document is written
PdfOutputs == {"bytearray", "str", "raises"}

\* the build with PyFPDF, whose output(dest="S") is a str
PyFPDFOutputs == {"str"}

\* create_pdf_from_record: the document of the record, which carries its external_id;
\* record['external_id'] of None raises
create_pdf_from_record(record, output) ==
  IF record = None \/ output = "raises"
    THEN [raised |-> TRUE, type |-> "", value |-> None]
    ELSE [raised |-> FALSE, type |-> output, value |-> [os |-> record.external_id]]

\* the keys of session s as one record
SessionState(s) ==
  [download_pdf_data |-> download_pdf_data[s], download_pdf_id |-> download_pdf_id[s],
   last_edited_pdf |-> last_edited_pdf[s]]

\* handle_form_submit_state as it would be if the document were made and stored
\* whether or not the insert raised
handle_form_submit_state_unguarded(st, raised, external_id, output) ==
  LET pdf == create_pdf_from_record([external_id |-> external_id], output)
  IN
  IF pdf.raised
    THEN st
    ELSE LET pdf_bytes == IF pdf.type = "bytearray"
                            THEN [type |-> "bytes", value |-> pdf.value]
                            ELSE [type |-> pdf.type, value |-> pdf.value]
         IN IF pdf_bytes.type = "bytes"
              THEN [download_pdf_data |-> pdf_bytes.value,
                    download_pdf_id |-> external_id,
                    last_edited_pdf |-> None]
              ELSE st

\* handle_form_submit, lines 304 to 324: what the callback leaves in the session
\* state st when the insert raised or not and pdf.output gives output
handle_form_submit_state(st, raised, external_id, output) ==
  LET pdf == create_pdf_from_record([external_id |-> external_id], output)
  IN
  IF raised \/ pdf.raised
    THEN st
    ELSE LET pdf_bytes == IF pdf.type = "bytearray"
                            THEN [type |-> "bytes", value |-> pdf.value]
                            ELSE [type |-> pdf.type, value |-> pdf.value]
         IN IF pdf_bytes.type = "bytes"
              THEN [download_pdf_data |-> pdf_bytes.value, download_pdf_id |-> external_id,
                    last_edited_pdf |-> None]
              ELSE st

\* 'Carregar para edicao', lines 535 to 539
carregar_state(st) ==
  [download_pdf_data |-> None, download_pdf_id |-> IF st.download_pdf_data # None
                                                     THEN <<>> ELSE st.download_pdf_id,
   last_edited_pdf |-> None]

\* edit_form_state as it would be without the deletion of the two download keys
edit_form_state_keep_download(st, updated_record, output) ==
  LET pdf == create_pdf_from_record(updated_record, output)
      pdf_bytes == IF pdf.type = "bytearray"
                     THEN [type |-> "bytes", value |-> pdf.value]
                     ELSE [type |-> pdf.type, value |-> pdf.value]
  IN IF pdf.raised \/ pdf_bytes.type # "bytes"
       THEN st
       ELSE [st EXCEPT !.last_edited_pdf = [data |-> pdf_bytes.value,
                                            external_id |-> updated_record.external_id]]

\* the edit form, lines 598 to 614: what the submit leaves in the session state
edit_form_state(st, updated_record, output) ==
  LET pdf == create_pdf_from_record(updated_record, output)
      pdf_bytes == IF pdf.type = "bytearray"
                     THEN [type |-> "bytes", value |-> pdf.value]
                     ELSE [type |-> pdf.type, value |-> pdf.value]
  IN IF pdf.raised \/ pdf_bytes.type # "bytes"
       THEN st
       ELSE [download_pdf_data |-> None,
             download_pdf_id |-> IF st.download_pdf_data # None THEN <<>> ELSE st.download_pdf_id,
             last_edited_pdf |-> [data |-> pdf_bytes.value,
                                  external_id |-> updated_record.external_id]]

\* 'Limpar / Novo Registro', lines 460 to 463
limpar_state(st) ==
  [download_pdf_data |-> None, download_pdf_id |-> <<>>, last_edited_pdf |-> None]

\* 'Esconder Download', line 637
esconder_state(st) == [st EXCEPT !.last_edited_pdf = None]

\* the session state st written to the keys of session s
SetSessionState(s, st) ==
  /\ download_pdf_data' = [download_pdf_data EXCEPT ![s] = st.download_pdf_data]
  /\ download_pdf_id' = [download_pdf_id EXCEPT ![s] = st.download_pdf_id]
  /\ last_edited_pdf' = [last_edited_pdf EXCEPT ![s] = st.last_edited_pdf]

\* get_db_connection opens one connection in each function below; each operator
\* gives how many connections the function leaves open on the path it took
unclosed_add_user(ret) == 0

unclosed_verify_user(user_data) == 0

unclosed_generate_external_id(rows) == 0

\* conn.close() is not reached when cur.execute raises
unclosed_insert_denuncia(raised) == IF raised THEN 1 ELSE 0

\* the row that is found is returned before cur.close() and conn.close()
unclosed_fetch_denuncia_by_id(record) == IF record # None THEN 1 ELSE 0

unclosed_update_denuncia_status(id_) == 0

unclosed_delete_denuncia(id_) == 0

unclosed_update_denuncia_full(id_) == 0

\* the section 'Editar Detalhes' of a run of the page 'Historico', lines 541 to 543:
\* the row of edit_mode_id is fetched when the key is set
unclosed_editar_detalhes(rows, target_id) ==
  IF target_id # 0
    THEN unclosed_fetch_denuncia_by_id(fetch_denuncia_by_id(rows, target_id))
    ELSE 0

\* the loop of 'Marcar como Concluida' over sel_ids
RECURSIVE MarcarComoConcluida(_, _)
MarcarComoConcluida(rows, sel_ids) ==
  IF sel_ids = {} THEN rows
  ELSE LET i == CHOOSE i \in sel_ids : TRUE
       IN MarcarComoConcluida(update_denuncia_status(rows, i, Concluida), sel_ids \ {i})

\* the loop of 'Excluir Selecionados' over sel_ids
RECURSIVE ExcluirSelecionados(_, _)
ExcluirSelecionados(rows, sel_ids) ==
  IF sel_ids = {} THEN rows
  ELSE LET i == CHOOSE i \in sel_ids : TRUE
       IN ExcluirSelecionados(delete_denuncia(rows, i), sel_ids \ {i})

\* the 'registro' form as rendered: the preview id and the timestamp
RegistroForm(rows, now) ==
  [external_id |-> generate_external_id(rows, now), created_at |-> strftime(now)]

-----------------------------------------------------------------------------
(* The sessions.  Every script run starts with init_db (line 330). *)

Op(name, s, arg, ret) == [op |-> name, sess |-> s, arg |-> arg, ret |-> ret]

Init ==
  /\ users = {}
  /\ denuncias = {}
  /\ denuncias_id_seq = 0
  /\ clock = 2025
  /\ user = [s \in Sessions |-> None]
  /\ form = [s \in Sessions |-> None]
  /\ edit_mode_id = [s \in Sessions |-> 0]
  /\ download_pdf_data = [s \in Sessions |-> None]
  /\ download_pdf_id = [s \in Sessions |-> <<>>]
  /\ last_edited_pdf = [s \in Sessions |-> None]
  /\ unclosed = 0
  /\ lastOp = Op("none", "", <<>>, "")

\* a run that ends at the login form
Startup(s) ==
  /\ user[s] = None
  /\ users' = init_db(users)
  /\ lastOp' = Op("init_db", s, <<>>, "")
  /\ unclosed' = 0
  /\ UNCHANGED <<denuncias, denuncias_id_seq, clock, user, form, edit_mode_id, pdf_keys>>

\* 'Entrar': on success the rerun shows the first page, which is 'Registro da
\* denuncia' unless the user is an administrator
Entrar(s, username, password) ==
  /\ user[s] = None
  /\ LET U == init_db(users)
         res == verify_user(U, strip(username), password)
     IN /\ users' = U
        /\ user' = IF res # None THEN [user EXCEPT ![s] = res] ELSE user
        /\ form' = IF res # None /\ ~res.is_admin
                     THEN [form EXCEPT ![s] = RegistroForm(denuncias, clock)]
                     ELSE form
        /\ lastOp' = Op("verify_user", s, strip(username),
                        IF res # None THEN "user" ELSE "None")
        /\ unclosed' = unclosed_verify_user(res)
                        + IF res # None /\ ~res.is_admin
                            THEN unclosed_generate_external_id(denuncias) ELSE 0
  /\ UNCHANGED <<denuncias, denuncias_id_seq, clock, edit_mode_id, pdf_keys>>

\* 'Adicionar usuario' on the administration page
AdicionarUsuario(s, new_username, new_password, new_fullname) ==
  /\ user[s] # None
  /\ user[s].is_admin
  /\ LET U == init_db(users)
         r == add_user(U, strip(new_username), strip(new_password), strip(new_fullname))
     IN IF new_username # <<>> /\ new_password # <<>>
          THEN /\ users' = r.users
               /\ lastOp' = Op("add_user", s, strip(new_username),
                               IF r.ret THEN "True" ELSE "False")
               /\ unclosed' = unclosed_add_user(r.ret)
          ELSE /\ users' = U
               /\ lastOp' = Op("add_user_form", s, <<>>, "")
               /\ unclosed' = 0
  /\ form' = [form EXCEPT ![s] = None]
  /\ UNCHANGED <<denuncias, denuncias_id_seq, clock, user, edit_mode_id, pdf_keys>>

\* a run that renders the page 'Registro da denuncia'
AbrirRegistro(s) ==
  /\ user[s] # None
  /\ users' = init_db(users)
  /\ form' = [form EXCEPT ![s] = RegistroForm(denuncias, clock)]
  /\ lastOp' = Op("generate_external_id", s, <<>>, "")
  /\ unclosed' = unclosed_generate_external_id(denuncias)
  /\ UNCHANGED <<denuncias, denuncias_id_seq, clock, user, edit_mode_id, pdf_keys>>

\* 'Salvar denuncia': the callback runs with the values of the form as rendered,
\* then the script reruns and renders the form anew. MaxSeq bounds the inserts that
\* add a row; a rejected insert takes a value of the sequence and adds none
SalvarDenuncia(s, data, output) ==
  /\ user[s] # None
  /\ form[s] # None
  /\ LET r == handle_form_submit(denuncias, denuncias_id_seq,
                                 form[s].external_id, form[s].created_at, data)
     IN /\ r.raised \/ denuncias_id_seq < MaxSeq
        /\ SetSessionState(s, handle_form_submit_state(SessionState(s), r.raised,
                                                       form[s].external_id, output))
        /\ unclosed' = unclosed_insert_denuncia(r.raised)
                        + unclosed_generate_external_id(r.rows)
        /\ denuncias' = r.rows
        /\ denuncias_id_seq' = r.seq
        /\ form' = [form EXCEPT ![s] = RegistroForm(r.rows, clock)]
        /\ lastOp' = Op("handle_form_submit", s, <<>>,
                        IF r.raised THEN "error" ELSE "success")
  /\ users' = init_db(users)
  /\ UNCHANGED <<clock, user, edit_mode_id>>

\* the ids that a selection made on the page 'Historico' may hold: the ids of the
\* rows read at line 469, some of which another session may have deleted before
\* the loop over sel_ids reaches them; no row has an id above MaxSeq
Selections ==
  LET last_id == IF denuncias_id_seq < MaxSeq THEN denuncias_id_seq ELSE MaxSeq
  IN {sel \in SUBSET (1..last_id) : sel # {} /\ Cardinality(sel) <= MaxSel}

\* 'Marcar como Concluida' on the selected ids
MarcarConcluida(s, sel_ids) ==
  /\ user[s] # None
  /\ denuncias # {}
  /\ denuncias' = MarcarComoConcluida(denuncias, sel_ids)
  /\ users' = init_db(users)
  /\ form' = [form EXCEPT ![s] = None]
  /\ lastOp' = Op("update_denuncia_status", s, <<>>, "")
  /\ unclosed' = unclosed_editar_detalhes(denuncias', edit_mode_id[s])
  /\ UNCHANGED <<denuncias_id_seq, clock, user, edit_mode_id, pdf_keys>>

\* 'Excluir Selecionados'
Excluir(s, sel_ids) ==
  /\ user[s] # None
  /\ denuncias # {}
  /\ denuncias' = ExcluirSelecionados(denuncias, sel_ids)
  /\ users' = init_db(users)
  /\ form' = [form EXCEPT ![s] = None]
  /\ lastOp' = Op("delete_denuncia", s, <<>>, "")
  /\ unclosed' = unclosed_editar_detalhes(denuncias', edit_mode_id[s])
  /\ UNCHANGED <<denuncias_id_seq, clock, user, edit_mode_id, pdf_keys>>

\* 'Carregar para edicao'
CarregarParaEdicao(s, edit_id) ==
  /\ user[s] # None
  /\ denuncias # {}
  /\ edit_mode_id' = [edit_mode_id EXCEPT ![s] = edit_id]
  /\ users' = init_db(users)
  /\ form' = [form EXCEPT ![s] = None]
  /\ lastOp' = Op("carregar", s, <<>>, "")
  /\ SetSessionState(s, carregar_state(SessionState(s)))
  /\ unclosed' = unclosed_editar_detalhes(denuncias, edit_id)
  /\ UNCHANGED <<denuncias, denuncias_id_seq, clock, user>>

\* 'Salvar alteracoes' of the edit form, which is rendered when the row exists
SalvarAlteracoes(s, data, status_e, output) ==
  /\ user[s] # None
  /\ denuncias # {}
  /\ edit_mode_id[s] # 0
  /\ fetch_denuncia_by_id(denuncias, edit_mode_id[s]) # None
  /\ LET target_id == edit_mode_id[s]
         newrow == [origem |-> data.origem, tipo |-> data.tipo, rua |-> data.rua,
                    numero |-> data.numero, bairro |-> data.bairro, zona |-> data.zona,
                    latitude |-> data.latitude, longitude |-> data.longitude,
                    descricao |-> data.descricao, quem_recebeu |-> data.quem_recebeu,
                    status |-> status_e]
         rec == fetch_denuncia_by_id(denuncias, target_id)
         updated == update_denuncia_full(denuncias, target_id, newrow)
         updated_record == fetch_denuncia_by_id(updated, target_id)
     IN /\ denuncias' = updated
        /\ SetSessionState(s, edit_form_state(SessionState(s), updated_record, output))
        /\ unclosed' = unclosed_fetch_denuncia_by_id(rec)
                        + unclosed_update_denuncia_full(target_id)
                        + unclosed_fetch_denuncia_by_id(updated_record)
        /\ lastOp' = Op("update_denuncia_full", s, <<>>, "")
  /\ edit_mode_id' = [edit_mode_id EXCEPT ![s] = 0]
  /\ users' = init_db(users)
  /\ form' = [form EXCEPT ![s] = None]
  /\ UNCHANGED <<denuncias_id_seq, clock, user>>

\* 'Limpar / Novo Registro', shown on the page 'Registro da denuncia' when both
\* download keys are set; the rerun renders the form anew
LimparNovoRegistro(s) ==
  /\ user[s] # None
  /\ form[s] # None
  /\ download_pdf_data[s] # None
  /\ download_pdf_id[s] # <<>>
  /\ SetSessionState(s, limpar_state(SessionState(s)))
  /\ form' = [form EXCEPT ![s] = RegistroForm(denuncias, clock)]
  /\ users' = init_db(users)
  /\ unclosed' = unclosed_generate_external_id(denuncias)
  /\ lastOp' = Op("limpar", s, <<>>, "")
  /\ UNCHANGED <<denuncias, denuncias_id_seq, clock, user, edit_mode_id>>

\* 'Esconder Download', shown on the page 'Historico' when last_edited_pdf is set
EsconderDownload(s) ==
  /\ user[s] # None
  /\ denuncias # {}
  /\ last_edited_pdf[s] # None
  /\ SetSessionState(s, esconder_state(SessionState(s)))
  /\ form' = [form EXCEPT ![s] = None]
  /\ users' = init_db(users)
  /\ unclosed' = unclosed_editar_detalhes(denuncias, edit_mode_id[s])
  /\ lastOp' = Op("esconder", s, <<>>, "")
  /\ UNCHANGED <<denuncias, denuncias_id_seq, clock, user, edit_mode_id>>

\* the year changes
Tick ==
  /\ clock + 1 \in Years
  /\ clock' = clock + 1
  /\ UNCHANGED <<users, denuncias, denuncias_id_seq, user, form, edit_mode_id,
                 pdf_keys, unclosed, lastOp>>

\* the credential store: the login form and the administration page
NextCred ==
  \/ \E s \in Sessions : Startup(s)
  \/ \E s \in Sessions, u \in TypedUsernames, p \in TypedPasswords : Entrar(s, u, p)
  \/ \E s \in Sessions, u \in TypedUsernames, p \in TypedPasswords, n \in TypedFullNames :
       AdicionarUsuario(s, u, p, n)

SpecCred == Init /\ [][NextCred]_vars

\* the complaint repository: the page 'Registro da denuncia' and the batch
\* actions of the page 'Historico', used by sessions that log in as the default
\* administrator
Next ==
  \/ \E s \in Sessions : Startup(s)
  \/ \E s \in Sessions, u \in TypedUsernames, p \in TypedPasswords : Entrar(s, u, p)
  \/ \E s \in Sessions : AbrirRegistro(s)
  \/ \E s \in Sessions, data \in FormData, output \in PyFPDFOutputs :
       SalvarDenuncia(s, data, output)
  \/ \E s \in Sessions, sel_ids \in Selections : MarcarConcluida(s, sel_ids)
  \/ \E s \in Sessions, sel_ids \in Selections : Excluir(s, sel_ids)
  \/ Tick

Spec == Init /\ [][Next]_vars

\* the edit form of the page 'Historico' beside the operations that change the
\* rows it edits, within one year
NextEdit ==
  \/ \E s \in Sessions : Startup(s)
  \/ \E s \in Sessions, u \in TypedUsernames, p \in TypedPasswords : Entrar(s, u, p)
  \/ \E s \in Sessions : AbrirRegistro(s)
  \/ \E s \in Sessions, data \in FormData, output \in PyFPDFOutputs :
       SalvarDenuncia(s, data, output)
  \/ \E s \in Sessions, sel_ids \in Selections : MarcarConcluida(s, sel_ids)
  \/ \E s \in Sessions, sel_ids \in Selections : Excluir(s, sel_ids)
  \/ \E s \in Sessions, edit_id \in 1..MaxSeq : CarregarParaEdicao(s, edit_id)
  \/ \E s \in Sessions, data \in FormData, status_e \in {Pendente, Concluida},
          output \in PyFPDFOutputs :
       SalvarAlteracoes(s, data, status_e, output)

SpecEdit == Init /\ [][NextEdit]_vars

\* the documents to download: the sessions' keys under the handlers that set and
\* delete them, with every outcome of pdf.output, one form filled in one way and
\* within one year
NextSession ==
  \/ \E s \in Sessions : Startup(s)
  \/ \E s \in Sessions, u \in TypedUsernames, p \in TypedPasswords : Entrar(s, u, p)
  \/ \E s \in Sessions : AbrirRegistro(s)
  \/ \E s \in Sessions, data \in {ScenarioForm}, output \in PdfOutputs :
       SalvarDenuncia(s, data, output)
  \/ \E s \in Sessions, edit_id \in 1..MaxSeq : CarregarParaEdicao(s, edit_id)
  \/ \E s \in Sessions, data \in {ScenarioForm}, status_e \in {Pendente, Concluida},
          output \in PdfOutputs :
       SalvarAlteracoes(s, data, status_e, output)
  \/ \E s \in Sessions : LimparNovoRegistro(s)
  \/ \E s \in Sessions : EsconderDownload(s)

SpecSession == Init /\ [][NextSession]_vars

-----------------------------------------------------------------------------
(* Reading an external_id back *)

SlashAt(ext) == CHOOSE i \in 1..Len(ext) : ext[i] = "/"

NumericPrefix(ext) == SubSeq(ext, 1, SlashAt(ext) - 1)

YearSuffix(ext) == SubSeq(ext, SlashAt(ext) + 1, Len(ext))

MaxId == IF denuncias = {} THEN 0 ELSE Max(Ids(denuncias))

-----------------------------------------------------------------------------
(* Claims *)

\* C1: the numeric prefix of every row's external_id is the id that storage
\* assigned to the row, in four digits, and its suffix is the year of created_at.
C1_PrefixIsInternalId ==
  \A r \in denuncias :
    /\ Len(NumericPrefix(r.external_id)) = PadWidth
    /\ ParseInt(NumericPrefix(r.external_id)) = r.id
    /\ YearSuffix(r.external_id) = r.created_at

\* C2: no two rows share an external_id, and a 'Salvar denuncia' whose preview id
\* is already the external_id of a row is rejected and adds no row.
C2_CollisionRejected ==
  [][ /\ \A r1, r2 \in denuncias' : r1.external_id = r2.external_id => r1 = r2
      /\ \A s \in Sessions, data \in FormData, output \in PdfOutputs :
           ( /\ SalvarDenuncia(s, data, output)
             /\ \E r \in denuncias : r.external_id = form[s].external_id )
           => (denuncias' = denuncias /\ lastOp'.ret = "error") ]_vars

\* a second session's insert of the same preview id has just been rejected
C2_Witness ==
  /\ lastOp.op = "handle_form_submit"
  /\ lastOp.ret = "error"
  /\ denuncias_id_seq = 2
  /\ \E r \in denuncias : r.id = 1 /\ ParseInt(NumericPrefix(r.external_id)) = 1

C4_SetStatusFrame ==
  [][ lastOp'.op = "update_denuncia_status" =>
        \A s \in Sessions, sel_ids \in Selections :
          MarcarConcluida(s, sel_ids) =>
            /\ \A r \in denuncias :
                 IF r.id \in sel_ids
                   THEN fetch_denuncia_by_id(denuncias', r.id) = [r EXCEPT !.status = Concluida]
                   ELSE r \in denuncias'
            /\ Ids(denuncias') = Ids(denuncias)
            /\ Cardinality(denuncias') = Cardinality(denuncias) ]_vars

\* one row has just been marked while another one stays 'Pendente'
C4_Witness ==
  /\ lastOp.op = "update_denuncia_status"
  /\ \E r \in denuncias : r.status = Concluida
  /\ \E r \in denuncias : r.status = Pendente

\* C5: no step changes the external_id or created_at of a row that keeps its id,
\* and a step of 'Salvar alteracoes' or 'Marcar como Concluida' keeps the ids of all
\* rows.
C5_IdentityImmutable ==
  [][ /\ \A r \in denuncias, q \in denuncias' :
           q.id = r.id => (q.external_id = r.external_id /\ q.created_at = r.created_at)
      /\ lastOp'.op \in {"update_denuncia_full", "update_denuncia_status"}
         => (Ids(denuncias') = Ids(denuncias) /\ Cardinality(denuncias') = Cardinality(denuncias))
    ]_vars

\* a row that was created with the first form data has just been edited to the
\* second and to 'Concluida'
C5_Witness ==
  /\ lastOp.op = "update_denuncia_full"
  /\ \E r \in denuncias : r.origem = "Ouvidoria" /\ r.status = Concluida /\ r.id = 2

\* C7: 'Adicionar usuario' with a username that exists answers False and leaves the
\* table users as it was.
C7_DuplicateUserRejected ==
  [][ \A s \in Sessions, u \in TypedUsernames, p \in TypedPasswords, n \in TypedFullNames :
        ( /\ AdicionarUsuario(s, u, p, n)
          /\ u # <<>> /\ p # <<>>
          /\ \E r \in users : r.username = strip(u) )
        => (lastOp'.op = "add_user" /\ lastOp'.ret = "False" /\ users' = users) ]_vars

\* a second add_user of a user that is not the administrator has been refused
C7_Witness ==
  /\ lastOp.op = "add_user"
  /\ lastOp.ret = "False"
  /\ lastOp.arg = <<"a", "n", "a">>

\* C8: 'Entrar' obtains the profile of the row whose username is the one typed and
\* whose password is the hash of the password typed, none when there is no such row,
\* and changes nothing in users but what init_db does.
C8_AuthenticateIff ==
  [][ \A s \in Sessions, u \in TypedUsernames, p \in TypedPasswords :
        Entrar(s, u, p) =>
          /\ users' = init_db(users)
          /\ IF \E r \in users' : r.username = strip(u) /\ r.password = hash_password(p)
               THEN \E r \in users' :
                      /\ r.username = strip(u) /\ r.password = hash_password(p)
                      /\ user'[s] = [username |-> r.username, full_name |-> r.full_name,
                                     is_admin |-> r.is_admin]
                      /\ lastOp'.ret = "user"
               ELSE user'[s] = None /\ lastOp'.ret = "None" ]_vars

\* a user who is not the administrator has logged in
C8_Witness ==
  /\ lastOp.op = "verify_user"
  /\ lastOp.ret = "user"
  /\ user[lastOp.sess] # None
  /\ user[lastOp.sess].username = <<"a", "n", "a">>

\* C9: the preview id rendered by a run has the numeric prefix max(id) + 1 over the
\* rows that exist, 1 when there are none; after a create that succeeded this is the
\* id of the new row plus one.
C9_PreviewFromMaxId ==
  /\ lastOp.op \in {"generate_external_id", "handle_form_submit"}
       => ParseInt(NumericPrefix(form[lastOp.sess].external_id)) = MaxId + 1
  /\ (lastOp.op = "handle_form_submit" /\ lastOp.ret = "success")
       => ParseInt(NumericPrefix(form[lastOp.sess].external_id)) = denuncias_id_seq + 1

\* a preview taken when the sequence is ahead of max(id)
C9_Witness ==
  /\ lastOp.op = "generate_external_id"
  /\ denuncias # {}
  /\ denuncias_id_seq > MaxId
  /\ ParseInt(NumericPrefix(form[lastOp.sess].external_id)) = MaxId + 1

\* C10: once a run has started, a row 'admin' with is_admin exists, no other row has
\* is_admin, and no step changes or removes a row 'admin'.
C10_BootstrapAdmin ==
  [][ /\ \E r \in users' : r.username = admin /\ r.is_admin
      /\ \A r \in users' : r.is_admin => r.username = admin
      /\ \A r \in users : r.username = admin => r \in users'
      /\ \A r1, r2 \in users' : r1.username = r2.username => r1 = r2 ]_vars

\* a user has been added beside the administrator, after init_db ran again
C10_Witness ==
  /\ lastOp.op = "init_db"
  /\ \E r \in users : r.username = admin /\ r.is_admin
  /\ \E r \in users : r.username # admin /\ ~r.is_admin

\* C11: when the insert of 'Salvar denuncia' fails, the failure is reported, no row
\* is added or changed, and the three download keys of the session are as before.
C11_FailedInsertLeavesBuffer ==
  [][ \A s \in Sessions :
        ( /\ lastOp'.op = "handle_form_submit"
          /\ lastOp'.sess = s
          /\ denuncias_id_seq' # denuncias_id_seq
          /\ \E r \in denuncias : r.external_id = form[s].external_id )
        => /\ lastOp'.ret = "error"
           /\ denuncias' = denuncias
           /\ download_pdf_data'[s] = download_pdf_data[s]
           /\ download_pdf_id'[s] = download_pdf_id[s]
           /\ last_edited_pdf'[s] = last_edited_pdf[s] ]_vars

\* an insert has just been rejected in a session that holds the document of a
\* row it created before
C11_Witness ==
  /\ lastOp.op = "handle_form_submit"
  /\ lastOp.ret = "error"
  /\ download_pdf_data[lastOp.sess] # None
  /\ download_pdf_id[lastOp.sess] # <<>>
  /\ \E r \in denuncias : r.external_id = download_pdf_id[lastOp.sess]
  /\ denuncias_id_seq > Cardinality(denuncias)

\* C12: in every session download_pdf_data and download_pdf_id are both set or both
\* absent, and download_pdf_data and last_edited_pdf are never both set.
C12_DownloadKeysPaired ==
  \A s \in Sessions :
    /\ (download_pdf_data[s] # None) <=> (download_pdf_id[s] # <<>>)
    /\ ~(download_pdf_data[s] # None /\ last_edited_pdf[s] # None)

\* an edit has just stored last_edited_pdf in a session, while the other session
\* holds the document of a row it created
C12_Witness ==
  /\ lastOp.op = "update_denuncia_full"
  /\ last_edited_pdf[lastOp.sess] # None
  /\ download_pdf_data[lastOp.sess] = None
  /\ \E t \in Sessions : download_pdf_data[t] # None /\ download_pdf_id[t] # <<>>

\* C13: after every handler, each connection it opened has been closed.
C13_NoOpenConnections == unclosed = 0

====
